---- MODULE Spec2Model ----
(***************************************************************************)
(* The batch orchestration pipeline of parallex: parallex() / _execute()  *)
(* (src/parallex/parallex.py) and upload_images_for_processing()           *)
(* (src/parallex/ai/uploader.py).                                          *)
(*                                                                         *)
(* One run of parallex() is modelled: the main coroutine (pc) packs the    *)
(* page images into jsonl files and uploads them, fans out one             *)
(* _create_batch_jobs task per file, gathers, fans out one                 *)
(* _wait_and_create_pages task per job, gathers, sorts, calls the hook and *)
(* runs the finally loop.  The tasks are asyncio tasks: each steps on its  *)
(* own whenever the main coroutine is suspended, also after gather raised  *)
(* and after parallex() itself ended.                                      *)
(*                                                                         *)
(* The remote client (upload, create_batch, wait_for_batch_completion,     *)
(* process_output, delete_file) and the RemoteFileHandler are not part of  *)
(* the two source files; they are modelled from their interface.           *)
(***************************************************************************)
EXTENDS Integers, Sequences, FiniteSets, TLC

\* ---------------------------------------------------------------- bounds
MaxPages == 3
MaxConcurrency == 2

\* ------------------------------------------------------------- constants
MAX_FILE_SIZE == 150 * 1024 * 1024

\* Serialized sizes a jsonl line can have: tiny, exactly the ceiling, and
\* one byte above it.
LineSizes == {1, MAX_FILE_SIZE, MAX_FILE_SIZE + 1}

\* Values of the concurrency argument: negative, zero and positive.
Concurrencies == (0 - 1)..MaxConcurrency

VARIABLES
  image_files,     \* _execute: list of ImageFile, as their page_numbers
  concurrency,     \* parallex(concurrency=...)
  pc,              \* position of the main coroutine
  img_idx,         \* uploader: number of image_files the for loop consumed
  upload_file,     \* uploader: lines of the file at upload_file_location
  batch_files,     \* uploader/_execute: list of BatchFile, as remote file ids
  remote_files,    \* remote: file id -> page_numbers of the uploaded lines
  remote_jobs,     \* remote: job id -> input file id
  created_files,   \* RemoteFileHandler.created_files
  start_batch_semaphore,  \* value of the Semaphore of the submit phase
  start_batch_tasks,      \* state of each _create_batch_jobs task
  start_results,          \* gather(*start_batch_tasks): result slots
  batch_jobs,             \* _execute: batch_jobs
  process_semaphore,      \* value of the Semaphore of the wait phase
  pages_tasks,            \* state of each _wait_and_create_pages task
  pages_results,          \* gather(*pages_tasks): result slots
  page_groups,            \* _execute: page_groups
  hook_called,     \* post_process_callable was invoked
  error,           \* parallex: the exception caught at "except Exception as e"
  ret,             \* parallex: value of the pending "return await _execute()"
  tracked_at_exit, \* created_files at the moment _execute ended
  delete_calls,    \* handles delete_file was called with, in call order
  outcome          \* what the caller of parallex() observes

vars == <<image_files, concurrency, pc, img_idx, upload_file, batch_files,
          remote_files, remote_jobs, created_files, start_batch_semaphore,
          start_batch_tasks, start_results, batch_jobs, process_semaphore,
          pages_tasks, pages_results, page_groups, hook_called, error, ret,
          tracked_at_exit, delete_calls, outcome>>

\* ------------------------------------------------------------- helpers
\* The inputs: N >= 1 page images with the unique page_numbers 1..N, as the
\* rasterizer numbers them (ascending) and in the opposite order.
Ascending(n) == [i \in 1..n |-> i]
Descending(n) == [i \in 1..n |-> n + 1 - i]
ImageLists == UNION {{Ascending(n), Descending(n)} : n \in 1..MaxPages}

Range(s) == {s[i] : i \in 1..Len(s)}

NoneValue == [kind |-> "None", pages |-> <<>>]
Pending == [kind |-> "pending", pages |-> <<>>]
DeleteError == [kind |-> "DeleteError", pages |-> <<>>]

FileHandle(id) == <<"file", id>>
JobHandle(id) == <<"job", id>>

\* RemoteFileHandler: a handle is recorded, at the end of the list, as soon as
\* the remote call that created it returns.
Track(files, handle) == Append(files, handle)

\* delete_file can fail (TransportError); a failure is not swallowed by the
\* client.
DeleteFileCanRaise == TRUE


\* ------------------------------------------------------------- uploader
RECURSIVE SumSizes(_)
SumSizes(file) ==
  IF file = <<>> THEN 0 ELSE Head(file).size + SumSizes(Tail(file))

\* os.path.exists(upload_file_location): the file exists once a line was
\* written to it.
Exists(file) == Len(file) > 0

\* The number of lines taken for the size in bytes.
GetSizeCountsLines(file) == Len(file)

\* os.path.getsize(upload_file_location)
GetSize(file) == SumSizes(file)

\* The check against twice the ceiling.
OverLimitLenient(file) ==
  Exists(file) /\ GetSize(file) > 2 * MAX_FILE_SIZE

\* The check skipped for a file of one line.
OverLimitNeedsTwoLines(file) ==
  Len(file) > 1 /\ GetSize(file) > MAX_FILE_SIZE

\* uploader.py:29-32, the check made before each line is appended.
OverLimit(file) == Exists(file) /\ GetSize(file) > MAX_FILE_SIZE

\* The write with mode "w" in place of "a": the file is truncated first.
WriteLineTruncating(file, line) == <<line>>

\* uploader.py:50-51, open(upload_file_location, "a") and write one line.
WriteLine(file, line) == Append(file, line)

PagesOfFile(file) == [k \in 1..Len(file) |-> file[k].page_number]

\* _execute raises: parallex() catches and logs the exception, and the
\* finally block starts with no return value pending.
ExecuteRaises(stage) ==
  /\ error' = stage
  /\ ret' = NoneValue
  /\ tracked_at_exit' = created_files
  /\ pc' = "finally"

\* _execute returns value: the finally block starts with value pending.
ExecuteReturns(value) ==
  /\ ret' = value
  /\ tracked_at_exit' = created_files
  /\ pc' = "finally"
  /\ UNCHANGED error

Init ==
  /\ image_files \in ImageLists
  /\ concurrency \in Concurrencies
  /\ pc = "pack"
  /\ img_idx = 0
  /\ upload_file = <<>>
  /\ batch_files = <<>>
  /\ remote_files = <<>>
  /\ remote_jobs = <<>>
  /\ created_files = <<>>
  /\ start_batch_semaphore = 0
  /\ start_batch_tasks = <<>>
  /\ start_results = <<>>
  /\ batch_jobs = <<>>
  /\ process_semaphore = 0
  /\ pages_tasks = <<>>
  /\ pages_results = <<>>
  /\ page_groups = <<>>
  /\ hook_called = FALSE
  /\ error = "none"
  /\ ret = Pending
  /\ tracked_at_exit = <<>>
  /\ delete_calls = <<>>
  /\ outcome = Pending

\* uploader.py:43-51: one iteration of the for loop that appends a line.
\* The size of the line is the size of the image read from disk.
AppendImage ==
  /\ pc = "pack"
  /\ img_idx < Len(image_files)
  /\ ~OverLimit(upload_file)
  /\ \E size \in LineSizes :
       upload_file' = WriteLine(upload_file,
                                [page_number |-> image_files[img_idx + 1],
                                 size |-> size])
  /\ img_idx' = img_idx + 1
  /\ UNCHANGED <<image_files, concurrency, pc, batch_files, remote_files,
                 remote_jobs, created_files, start_batch_semaphore,
                 start_batch_tasks, start_results, batch_jobs,
                 process_semaphore, pages_tasks, pages_results, page_groups,
                 hook_called, error, ret, tracked_at_exit, delete_calls,
                 outcome>>

\* uploader.py:34 and :52: _create_batch_file is called and client.upload
\* is awaited, inside the loop when the file is over the limit and once
\* after the loop.
BeginUpload ==
  /\ pc = "pack"
  /\ \/ img_idx < Len(image_files) /\ OverLimit(upload_file)
     \/ img_idx = Len(image_files)
  /\ pc' = "upload"
  /\ UNCHANGED <<image_files, concurrency, img_idx, upload_file, batch_files,
                 remote_files, remote_jobs, created_files,
                 start_batch_semaphore, start_batch_tasks, start_results,
                 batch_jobs, process_semaphore, pages_tasks, pages_results,
                 page_groups, hook_called, error, ret, tracked_at_exit,
                 delete_calls, outcome>>

\* client.upload returns: the remote file exists and is tracked; the
\* BatchFile is appended (uploader.py:37-41 and :53-54).
UploadReturns ==
  /\ pc = "upload"
  /\ remote_files' = Append(remote_files, PagesOfFile(upload_file))
  /\ created_files' = Track(created_files, FileHandle(Len(remote_files) + 1))
  /\ batch_files' = Append(batch_files, Len(remote_files) + 1)
  /\ upload_file' = <<>>
  /\ pc' = IF img_idx < Len(image_files) THEN "pack" ELSE "start_batch"
  /\ UNCHANGED <<image_files, concurrency, img_idx, remote_jobs,
                 start_batch_semaphore, start_batch_tasks, start_results,
                 batch_jobs, process_semaphore, pages_tasks, pages_results,
                 page_groups, hook_called, error, ret, tracked_at_exit,
                 delete_calls, outcome>>

\* client.upload raises (TransportError): the exception leaves _execute.
UploadRaises ==
  /\ pc = "upload"
  /\ ExecuteRaises("upload")
  /\ upload_file' = <<>>
  /\ UNCHANGED <<image_files, concurrency, img_idx, batch_files,
                 remote_files, remote_jobs, created_files,
                 start_batch_semaphore, start_batch_tasks, start_results,
                 batch_jobs, process_semaphore, pages_tasks, pages_results,
                 page_groups, hook_called, delete_calls, outcome>>


\* ------------------------------------------------------- _execute, tasks
Tasks == 1..Len(batch_files)

\* Results collected as the tasks complete: the first free slot is taken.
StoreResultAsCompleted(results, i, value) ==
  [results EXCEPT
     ![CHOOSE k \in 1..Len(results) :
         results[k] = <<>> /\ \A j \in 1..(k - 1) : results[j] # <<>>] =
       <<value>>]

\* asyncio.gather keeps one result slot per awaitable, in the order the
\* awaitables were passed: slot i receives the result of task i.
StoreResult(results, i, value) == [results EXCEPT ![i] = <<value>>]

\* The list gather returns once every slot is filled.
Gathered(results) == [i \in 1..Len(results) |-> results[i][1]]

\* process_output for the output of job: one page output per line of the
\* job's input file.
PageOutputsOf(job) ==
  [k \in 1..Len(remote_files[remote_jobs[job]]) |->
     [page_number |-> remote_files[remote_jobs[job]][k], batch |-> job]]

\* parallex.py:95
RECURSIVE Flatten(_)
Flatten(groups) ==
  IF groups = <<>> THEN <<>> ELSE Head(groups) \o Flatten(Tail(groups))

\* sorted(pages, key=lambda x: x.page_number): a stable sort, ascending.
RECURSIVE InsertSorted(_, _)
InsertSorted(page, sorted) ==
  IF sorted = <<>> THEN <<page>>
  ELSE IF page.page_number < Head(sorted).page_number
       THEN <<page>> \o sorted
       ELSE <<Head(sorted)>> \o InsertSorted(page, Tail(sorted))

\* The pages left in the order the jobs delivered them.
UnsortedPages(pages) == pages

RECURSIVE SortedPages(_)
SortedPages(pages) ==
  IF pages = <<>> THEN <<>>
  ELSE InsertSorted(pages[Len(pages)],
                    SortedPages(SubSeq(pages, 1, Len(pages) - 1)))

\* parallex.py:95-105
CallableOutput(groups) ==
  [kind |-> "document", pages |-> SortedPages(Flatten(groups))]

\* parallex.py:70-82: the semaphore and one _create_batch_jobs task per
\* batch file are created; the main coroutine then awaits gather.
\* asyncio.Semaphore raises ValueError for a negative value.
StartBatchTasks ==
  /\ pc = "start_batch"
  /\ IF concurrency < 0
     THEN /\ ExecuteRaises("config")
          /\ UNCHANGED <<start_batch_semaphore, start_batch_tasks,
                         start_results>>
     ELSE /\ start_batch_semaphore' = concurrency
          /\ start_batch_tasks' = [i \in Tasks |-> "pending"]
          /\ start_results' = [i \in Tasks |-> <<>>]
          /\ pc' = "gather_batch"
          /\ UNCHANGED <<error, ret, tracked_at_exit>>
  /\ UNCHANGED <<image_files, concurrency, img_idx, upload_file, batch_files,
                 remote_files, remote_jobs, created_files, batch_jobs,
                 process_semaphore, pages_tasks, pages_results, page_groups,
                 hook_called, delete_calls, outcome>>

\* parallex.py:130-131: task i enters "async with semaphore" and calls
\* create_batch.
CreateBatchAcquire(i) ==
  /\ start_batch_tasks[i] = "pending"
  /\ start_batch_semaphore > 0
  /\ start_batch_semaphore' = start_batch_semaphore - 1
  /\ start_batch_tasks' = [start_batch_tasks EXCEPT ![i] = "running"]
  /\ UNCHANGED <<image_files, concurrency, pc, img_idx, upload_file,
                 batch_files, remote_files, remote_jobs, created_files,
                 start_results, batch_jobs, process_semaphore, pages_tasks,
                 pages_results, page_groups, hook_called, error, ret,
                 tracked_at_exit, delete_calls, outcome>>

\* The loop variable captured late: every task submits the file the loop
\* ended on.
CreateBatchReturnsLastFile(i) ==
  /\ start_batch_tasks[i] = "running"
  /\ remote_jobs' = Append(remote_jobs, batch_files[Len(batch_files)])
  /\ created_files' = Track(created_files, JobHandle(Len(remote_jobs) + 1))
  /\ start_results' = StoreResult(start_results, i, Len(remote_jobs) + 1)
  /\ start_batch_semaphore' = start_batch_semaphore + 1
  /\ start_batch_tasks' = [start_batch_tasks EXCEPT ![i] = "done"]
  /\ UNCHANGED <<image_files, concurrency, pc, img_idx, upload_file,
                 batch_files, remote_files, batch_jobs, process_semaphore,
                 pages_tasks, pages_results, page_groups, hook_called, error,
                 ret, tracked_at_exit, delete_calls, outcome>>

\* parallex.py:131-134: create_batch returns the job, which is tracked;
\* the task leaves the semaphore and returns it.
CreateBatchReturns(i) ==
  /\ start_batch_tasks[i] = "running"
  /\ remote_jobs' = Append(remote_jobs, batch_files[i])
  /\ created_files' = Track(created_files, JobHandle(Len(remote_jobs) + 1))
  /\ start_results' = StoreResult(start_results, i, Len(remote_jobs) + 1)
  /\ start_batch_semaphore' = start_batch_semaphore + 1
  /\ start_batch_tasks' = [start_batch_tasks EXCEPT ![i] = "done"]
  /\ UNCHANGED <<image_files, concurrency, pc, img_idx, upload_file,
                 batch_files, remote_files, batch_jobs, process_semaphore,
                 pages_tasks, pages_results, page_groups, hook_called, error,
                 ret, tracked_at_exit, delete_calls, outcome>>

\* The semaphore released on the normal path only: a task whose
\* create_batch raises keeps its slot.
CreateBatchRaisesKeepsSlot(i) ==
  /\ start_batch_tasks[i] = "running"
  /\ start_batch_tasks' = [start_batch_tasks EXCEPT ![i] = "failed"]
  /\ UNCHANGED <<image_files, concurrency, pc, img_idx, upload_file,
                 batch_files, remote_files, remote_jobs, created_files,
                 start_batch_semaphore, start_results, batch_jobs,
                 process_semaphore, pages_tasks, pages_results, page_groups,
                 hook_called, error, ret, tracked_at_exit, delete_calls,
                 outcome>>

\* create_batch raises (SubmissionError): the task leaves the semaphore
\* and ends with the exception.
CreateBatchRaises(i) ==
  /\ start_batch_tasks[i] = "running"
  /\ start_batch_semaphore' = start_batch_semaphore + 1
  /\ start_batch_tasks' = [start_batch_tasks EXCEPT ![i] = "failed"]
  /\ UNCHANGED <<image_files, concurrency, pc, img_idx, upload_file,
                 batch_files, remote_files, remote_jobs, created_files,
                 start_results, batch_jobs, process_semaphore, pages_tasks,
                 pages_results, page_groups, hook_called, error, ret,
                 tracked_at_exit, delete_calls, outcome>>

\* The wait tasks created as soon as the first job exists, without the
\* gather in between.
GatherBatchJobsFirstCompleted ==
  /\ pc = "gather_batch"
  /\ \E i \in Tasks : start_batch_tasks[i] = "done"
  /\ batch_jobs' = [i \in Tasks |->
                      IF start_batch_tasks[i] = "done"
                      THEN start_results[i][1] ELSE 0]
  /\ process_semaphore' = concurrency
  /\ pages_tasks' = [i \in Tasks |-> "pending"]
  /\ pages_results' = [i \in Tasks |-> <<>>]
  /\ pc' = "gather_pages"
  /\ UNCHANGED <<image_files, concurrency, img_idx, upload_file, batch_files,
                 remote_files, remote_jobs, created_files,
                 start_batch_semaphore, start_batch_tasks, start_results,
                 page_groups, hook_called, error, ret, tracked_at_exit,
                 delete_calls, outcome>>

\* parallex.py:82-93: gather returns batch_jobs once every task is done;
\* the second semaphore and one _wait_and_create_pages task per job are
\* created and the main coroutine awaits the second gather.
GatherBatchJobs ==
  /\ pc = "gather_batch"
  /\ \A i \in Tasks : start_batch_tasks[i] = "done"
  /\ batch_jobs' = Gathered(start_results)
  /\ process_semaphore' = concurrency
  /\ pages_tasks' = [i \in Tasks |-> "pending"]
  /\ pages_results' = [i \in Tasks |-> <<>>]
  /\ pc' = "gather_pages"
  /\ UNCHANGED <<image_files, concurrency, img_idx, upload_file, batch_files,
                 remote_files, remote_jobs, created_files,
                 start_batch_semaphore, start_batch_tasks, start_results,
                 page_groups, hook_called, error, ret, tracked_at_exit,
                 delete_calls, outcome>>

\* parallex.py:82: gather (return_exceptions=False) raises the exception
\* of a failed task as soon as there is one; the other tasks are neither
\* awaited nor cancelled.
GatherBatchRaises ==
  /\ pc = "gather_batch"
  /\ \E i \in Tasks : start_batch_tasks[i] = "failed"
  /\ ExecuteRaises("submit")
  /\ UNCHANGED <<image_files, concurrency, img_idx, upload_file, batch_files,
                 remote_files, remote_jobs, created_files,
                 start_batch_semaphore, start_batch_tasks, start_results,
                 batch_jobs, process_semaphore, pages_tasks, pages_results,
                 page_groups, hook_called, delete_calls, outcome>>


\* parallex.py:114-116: task i enters "async with semaphore" and calls
\* wait_for_batch_completion.
WaitAcquire(i) ==
  /\ i \in DOMAIN pages_tasks
  /\ pages_tasks[i] = "pending"
  /\ process_semaphore > 0
  /\ process_semaphore' = process_semaphore - 1
  /\ pages_tasks' = [pages_tasks EXCEPT ![i] = "waiting"]
  /\ UNCHANGED <<image_files, concurrency, pc, img_idx, upload_file,
                 batch_files, remote_files, remote_jobs, created_files,
                 start_batch_semaphore, start_batch_tasks, start_results,
                 batch_jobs, pages_results, page_groups, hook_called, error,
                 ret, tracked_at_exit, delete_calls, outcome>>

\* parallex.py:116-118: the job reached Succeeded; wait_for_batch_completion
\* returns the output file id and process_output is called.
WaitReturns(i) ==
  /\ i \in DOMAIN pages_tasks
  /\ pages_tasks[i] = "waiting"
  /\ pages_tasks' = [pages_tasks EXCEPT ![i] = "decoding"]
  /\ UNCHANGED <<image_files, concurrency, pc, img_idx, upload_file,
                 batch_files, remote_files, remote_jobs, created_files,
                 start_batch_semaphore, start_batch_tasks, start_results,
                 batch_jobs, process_semaphore, pages_results, page_groups,
                 hook_called, error, ret, tracked_at_exit, delete_calls,
                 outcome>>

\* The semaphore released on the normal path only: a task that ends with
\* an exception keeps its slot.
WaitRaisesKeepsSlot(i) ==
  /\ i \in DOMAIN pages_tasks
  /\ pages_tasks[i] = "waiting"
  /\ pages_tasks' = [pages_tasks EXCEPT ![i] = "wait_failed"]
  /\ UNCHANGED <<image_files, concurrency, pc, img_idx, upload_file,
                 batch_files, remote_files, remote_jobs, created_files,
                 start_batch_semaphore, start_batch_tasks, start_results,
                 batch_jobs, process_semaphore, pages_results, page_groups,
                 hook_called, error, ret, tracked_at_exit, delete_calls,
                 outcome>>

\* The job reached Failed or Expired: wait_for_batch_completion raises, the
\* task leaves the semaphore and ends with the exception.
WaitRaises(i) ==
  /\ i \in DOMAIN pages_tasks
  /\ pages_tasks[i] = "waiting"
  /\ process_semaphore' = process_semaphore + 1
  /\ pages_tasks' = [pages_tasks EXCEPT ![i] = "wait_failed"]
  /\ UNCHANGED <<image_files, concurrency, pc, img_idx, upload_file,
                 batch_files, remote_files, remote_jobs, created_files,
                 start_batch_semaphore, start_batch_tasks, start_results,
                 batch_jobs, pages_results, page_groups, hook_called, error,
                 ret, tracked_at_exit, delete_calls, outcome>>

\* parallex.py:118-121: process_output returns the page responses; the task
\* leaves the semaphore and returns them.
ProcessOutputReturns(i) ==
  /\ i \in DOMAIN pages_tasks
  /\ pages_tasks[i] = "decoding"
  /\ pages_results' = StoreResult(pages_results, i, PageOutputsOf(batch_jobs[i]))
  /\ process_semaphore' = process_semaphore + 1
  /\ pages_tasks' = [pages_tasks EXCEPT ![i] = "done"]
  /\ UNCHANGED <<image_files, concurrency, pc, img_idx, upload_file,
                 batch_files, remote_files, remote_jobs, created_files,
                 start_batch_semaphore, start_batch_tasks, start_results,
                 batch_jobs, page_groups, hook_called, error, ret,
                 tracked_at_exit, delete_calls, outcome>>

\* process_output raises (DecodeError).
ProcessOutputRaises(i) ==
  /\ i \in DOMAIN pages_tasks
  /\ pages_tasks[i] = "decoding"
  /\ process_semaphore' = process_semaphore + 1
  /\ pages_tasks' = [pages_tasks EXCEPT ![i] = "decode_failed"]
  /\ UNCHANGED <<image_files, concurrency, pc, img_idx, upload_file,
                 batch_files, remote_files, remote_jobs, created_files,
                 start_batch_semaphore, start_batch_tasks, start_results,
                 batch_jobs, pages_results, page_groups, hook_called, error,
                 ret, tracked_at_exit, delete_calls, outcome>>

PagesTaskEnded(i) ==
  pages_tasks[i] \in {"done", "wait_failed", "decode_failed"}

\* gather(..., return_exceptions=True) with the exceptions dropped: the
\* pages of the tasks that succeeded are kept.
GatherPagesDropsFailures ==
  /\ pc = "gather_pages"
  /\ \A i \in Tasks : PagesTaskEnded(i)
  /\ page_groups' = [i \in Tasks |->
                       IF pages_tasks[i] = "done" THEN pages_results[i][1]
                       ELSE <<>>]
  /\ pc' = "hook"
  /\ UNCHANGED <<image_files, concurrency, img_idx, upload_file, batch_files,
                 remote_files, remote_jobs, created_files,
                 start_batch_semaphore, start_batch_tasks, start_results,
                 batch_jobs, process_semaphore, pages_tasks, pages_results,
                 hook_called, error, ret, tracked_at_exit, delete_calls,
                 outcome>>

\* parallex.py:93: gather returns page_groups once every task is done.
GatherPages ==
  /\ pc = "gather_pages"
  /\ \A i \in Tasks : pages_tasks[i] = "done"
  /\ page_groups' = Gathered(pages_results)
  /\ pc' = "hook"
  /\ UNCHANGED <<image_files, concurrency, img_idx, upload_file, batch_files,
                 remote_files, remote_jobs, created_files,
                 start_batch_semaphore, start_batch_tasks, start_results,
                 batch_jobs, process_semaphore, pages_tasks, pages_results,
                 hook_called, error, ret, tracked_at_exit, delete_calls,
                 outcome>>

\* parallex.py:93: gather raises the exception of a failed task.
GatherPagesRaises ==
  /\ pc = "gather_pages"
  /\ \E i \in Tasks :
       \/ pages_tasks[i] = "wait_failed" /\ ExecuteRaises("wait")
       \/ pages_tasks[i] = "decode_failed" /\ ExecuteRaises("decode")
  /\ UNCHANGED <<image_files, concurrency, img_idx, upload_file, batch_files,
                 remote_files, remote_jobs, created_files,
                 start_batch_semaphore, start_batch_tasks, start_results,
                 batch_jobs, process_semaphore, pages_tasks, pages_results,
                 page_groups, hook_called, delete_calls, outcome>>

\* parallex.py:95-108 with post_process_callable None: the document is
\* built and returned.
ReturnWithoutHook ==
  /\ pc = "hook"
  /\ ExecuteReturns(CallableOutput(page_groups))
  /\ UNCHANGED <<image_files, concurrency, img_idx, upload_file, batch_files,
                 remote_files, remote_jobs, created_files,
                 start_batch_semaphore, start_batch_tasks, start_results,
                 batch_jobs, process_semaphore, pages_tasks, pages_results,
                 page_groups, hook_called, delete_calls, outcome>>

\* parallex.py:95-108 with a post_process_callable that returns.
HookReturns ==
  /\ pc = "hook"
  /\ hook_called' = TRUE
  /\ ExecuteReturns(CallableOutput(page_groups))
  /\ UNCHANGED <<image_files, concurrency, img_idx, upload_file, batch_files,
                 remote_files, remote_jobs, created_files,
                 start_batch_semaphore, start_batch_tasks, start_results,
                 batch_jobs, process_semaphore, pages_tasks, pages_results,
                 page_groups, delete_calls, outcome>>

\* parallex.py:106-107 with a post_process_callable that raises.
HookRaises ==
  /\ pc = "hook"
  /\ hook_called' = TRUE
  /\ ExecuteRaises("hook")
  /\ UNCHANGED <<image_files, concurrency, img_idx, upload_file, batch_files,
                 remote_files, remote_jobs, created_files,
                 start_batch_semaphore, start_batch_tasks, start_results,
                 batch_jobs, process_semaphore, pages_tasks, pages_results,
                 page_groups, delete_calls, outcome>>

\* ------------------------------------------------------ parallex: finally
\* The loop stopping one element early.
HasNextFileSkipsLast == Len(delete_calls) + 1 < Len(created_files)

\* parallex.py:43: the for loop over the list created_files has a next
\* element as long as its index is inside the list as it is now.
HasNextFile == Len(delete_calls) < Len(created_files)

NextFile == created_files[Len(delete_calls) + 1]

\* parallex.py:43-45: delete_file is awaited for the next file and returns.
DeleteFileReturns ==
  /\ pc = "finally"
  /\ HasNextFile
  /\ delete_calls' = Append(delete_calls, NextFile)
  /\ UNCHANGED <<image_files, concurrency, pc, img_idx, upload_file,
                 batch_files, remote_files, remote_jobs, created_files,
                 start_batch_semaphore, start_batch_tasks, start_results,
                 batch_jobs, process_semaphore, pages_tasks, pages_results,
                 page_groups, hook_called, error, ret, tracked_at_exit,
                 outcome>>

\* parallex.py:45: delete_file raises inside the finally block: the
\* exception leaves parallex() in place of the pending return value.
DeleteFileRaises ==
  /\ pc = "finally"
  /\ HasNextFile
  /\ DeleteFileCanRaise
  /\ delete_calls' = Append(delete_calls, NextFile)
  /\ outcome' = DeleteError
  /\ pc' = "done"
  /\ UNCHANGED <<image_files, concurrency, img_idx, upload_file, batch_files,
                 remote_files, remote_jobs, created_files,
                 start_batch_semaphore, start_batch_tasks, start_results,
                 batch_jobs, process_semaphore, pages_tasks, pages_results,
                 page_groups, hook_called, error, ret, tracked_at_exit>>

\* parallex.py:43: the loop is over; parallex() returns the pending value
\* (the document, or None after the except clause).
ParallexReturns ==
  /\ pc = "finally"
  /\ ~HasNextFile
  /\ outcome' = ret
  /\ pc' = "done"
  /\ UNCHANGED <<image_files, concurrency, img_idx, upload_file, batch_files,
                 remote_files, remote_jobs, created_files,
                 start_batch_semaphore, start_batch_tasks, start_results,
                 batch_jobs, process_semaphore, pages_tasks, pages_results,
                 page_groups, hook_called, error, ret, tracked_at_exit,
                 delete_calls>>

\* ------------------------------------------------------------------ spec
Next ==
  \/ AppendImage
  \/ BeginUpload
  \/ UploadReturns
  \/ UploadRaises
  \/ StartBatchTasks
  \/ \E i \in DOMAIN start_batch_tasks : CreateBatchAcquire(i)
  \/ \E i \in DOMAIN start_batch_tasks : CreateBatchReturns(i)
  \/ \E i \in DOMAIN start_batch_tasks : CreateBatchRaises(i)
  \/ GatherBatchJobs
  \/ GatherBatchRaises
  \/ \E i \in DOMAIN pages_tasks : WaitAcquire(i)
  \/ \E i \in DOMAIN pages_tasks : WaitReturns(i)
  \/ \E i \in DOMAIN pages_tasks : WaitRaises(i)
  \/ \E i \in DOMAIN pages_tasks : ProcessOutputReturns(i)
  \/ \E i \in DOMAIN pages_tasks : ProcessOutputRaises(i)
  \/ GatherPages
  \/ GatherPagesRaises
  \/ ReturnWithoutHook
  \/ HookReturns
  \/ HookRaises
  \/ DeleteFileReturns
  \/ DeleteFileRaises
  \/ ParallexReturns

Spec == Init /\ [][Next]_vars


\* ---------------------------------------------------------------- claims
CountIn(seq, h) == Cardinality({k \in 1..Len(seq) : seq[k] = h})

StartTaskInFlight(i) == start_batch_tasks[i] = "running"
PagesTaskInFlight(i) == pages_tasks[i] \in {"waiting", "decoding"}

InFlightStart == {i \in DOMAIN start_batch_tasks : StartTaskInFlight(i)}
InFlightPages == {i \in DOMAIN pages_tasks : PagesTaskInFlight(i)}

AllTasksEnded ==
  /\ \A i \in DOMAIN start_batch_tasks :
       start_batch_tasks[i] \in {"done", "failed"}
  /\ \A i \in DOMAIN pages_tasks : PagesTaskEnded(i)

SomeTaskFailed ==
  \/ \E i \in DOMAIN start_batch_tasks : start_batch_tasks[i] = "failed"
  \/ \E i \in DOMAIN pages_tasks :
       pages_tasks[i] \in {"wait_failed", "decode_failed"}

\* C1: when parallex() has ended and no delete_file call failed, every
\* handle that was in created_files when _execute ended (by return or by an
\* exception of any stage) has received exactly one delete_file call; the
\* calls are there in the very state in which parallex() ends.
C1_TrackedDeletedExactlyOnce ==
  (pc = "done" /\ outcome # DeleteError) =>
    \A k \in 1..Len(tracked_at_exit) :
      CountIn(delete_calls, tracked_at_exit[k]) = 1

C1_Witness ==
  /\ pc = "done"
  /\ outcome # DeleteError
  /\ error = "decode"
  /\ Len(tracked_at_exit) >= 3

\* C2: when a delete_file call raises, delete_file has still been called
\* for every tracked handle (as many calls as tracked handles).
C2_AllHandlesAttempted ==
  (pc = "done" /\ outcome = DeleteError) =>
    /\ Len(delete_calls) >= Len(tracked_at_exit)
    /\ \A k \in 1..Len(tracked_at_exit) :
         CountIn(delete_calls, tracked_at_exit[k]) >= 1

\* C3: what the caller of parallex() observes is the outcome of _execute
\* (its document, or None after a failure), whether or not a delete_file
\* call failed.
C3_OutcomeIsPrimary ==
  pc = "done" => outcome = ret

\* C4: after a job-level task failed, once parallex() and all its tasks
\* have ended, every handle created during the run has received a
\* delete_file call (stated for the runs in which no delete_file call
\* failed).
C4_SiblingResourcesDeleted ==
  (/\ pc = "done"
   /\ error \in {"submit", "wait", "decode"}
   /\ outcome # DeleteError
   /\ AllTasksEnded) =>
    \A k \in 1..Len(created_files) :
      CountIn(delete_calls, created_files[k]) >= 1

\* C5: the finally loop of parallex() runs only when no submit or wait
\* task is in flight any more: the started siblings of a failed task have
\* been drained before the first delete_file call.
C5_CleanupAfterDrain ==
  pc = "finally" => (InFlightStart = {} /\ InFlightPages = {})

\* C6: with a concurrency limit K >= 1, in each fan-out phase at most K
\* tasks are inside the semaphore-guarded region, and every slot not held
\* by a task inside the region is free: a task that returned or raised has
\* given its slot back.
C6_AtMostKInFlight ==
  concurrency >= 1 =>
    /\ Cardinality(InFlightStart) <= concurrency
    /\ Cardinality(InFlightPages) <= concurrency
    /\ start_batch_tasks # <<>> =>
         start_batch_semaphore + Cardinality(InFlightStart) = concurrency
    /\ pages_tasks # <<>> =>
         process_semaphore + Cardinality(InFlightPages) = concurrency

C6_Witness ==
  /\ concurrency = 1
  /\ \E i, j \in DOMAIN pages_tasks :
       /\ pages_tasks[i] = "wait_failed"
       /\ pages_tasks[j] = "waiting"
  /\ \E i \in DOMAIN pages_tasks : pages_tasks[i] = "pending"

PageNumbers(pages) == [k \in 1..Len(pages) |-> pages[k].page_number]

\* C7: a returned document holds exactly one page output per input page,
\* each produced by the job of the file that holds the page, in ascending
\* page_number order; sorting its pages again changes nothing.
C7_DocumentSortedAndComplete ==
  outcome.kind = "document" =>
    /\ PageNumbers(outcome.pages) = Ascending(Len(image_files))
    /\ \A k \in 1..Len(outcome.pages) :
         /\ outcome.pages[k].batch \in DOMAIN remote_jobs
         /\ outcome.pages[k].page_number \in
              Range(remote_files[remote_jobs[outcome.pages[k].batch]])
    /\ SortedPages(outcome.pages) = outcome.pages

C7_Witness ==
  /\ outcome.kind = "document"
  /\ Len(batch_files) >= 2
  /\ batch_jobs[1] > batch_jobs[2]
  /\ Flatten(page_groups) # outcome.pages

\* C8: gather returns the results in task order: batch_jobs[i] is the job
\* created from batch_files[i] and page_groups[i] is the page list decoded
\* from batch_jobs[i], in whatever order the tasks completed.
C8_ResultsInSubmissionOrder ==
  /\ batch_jobs # <<>> =>
       /\ Len(batch_jobs) = Len(batch_files)
       /\ \A i \in Tasks : remote_jobs[batch_jobs[i]] = batch_files[i]
  /\ page_groups # <<>> =>
       /\ Len(page_groups) = Len(batch_jobs)
       /\ \A i \in Tasks : page_groups[i] = PageOutputsOf(batch_jobs[i])

C8_Witness ==
  /\ page_groups # <<>>
  /\ Len(batch_jobs) >= 2
  /\ batch_jobs[1] > batch_jobs[2]

\* C9: once an upload, a submission, a wait or a decode has failed, the
\* hook is not invoked and parallex() delivers no document: it returns
\* None.
C9_FailureReturnsNone ==
  (error \in {"upload", "submit", "wait", "decode"} \/ SomeTaskFailed) =>
    /\ ret.kind # "document"
    /\ ~hook_called
    /\ pc = "done" => outcome = NoneValue

\* The part of C9 that holds in every run: after such a failure no document
\* is pending or delivered and the hook is not invoked, and parallex()
\* returns None unless a delete_file call raised.
C9_FailureYieldsNoDocument ==
  (error \in {"upload", "submit", "wait", "decode"} \/ SomeTaskFailed) =>
    /\ ret.kind # "document"
    /\ outcome.kind # "document"
    /\ ~hook_called
    /\ (pc = "done" /\ outcome # DeleteError) => outcome = NoneValue

C9_Witness ==
  /\ pc = "done"
  /\ error = "decode"
  /\ outcome = NoneValue
  /\ \E i \in DOMAIN pages_tasks : pages_tasks[i] = "done"

UploadedPages ==
  Flatten([i \in 1..Len(batch_files) |-> remote_files[batch_files[i]]])

\* C10: while packing, the uploaded units followed by the lines of the
\* current file are exactly the images consumed so far, in input order (a
\* unit is uploaded before the next one receives a line); no uploaded unit
\* is empty; and when upload_images_for_processing has returned, the units
\* of batch_files, in order, hold every image exactly once in input order.
C10_UnitsPartitionInput ==
  /\ pc \in {"pack", "upload"} =>
       UploadedPages \o PagesOfFile(upload_file) =
         SubSeq(image_files, 1, img_idx)
  /\ \A i \in 1..Len(batch_files) : remote_files[batch_files[i]] # <<>>
  /\ (pc \notin {"pack", "upload"} /\ error # "upload") =>
       UploadedPages = image_files

C10_Witness ==
  /\ pc = "start_batch"
  /\ Len(batch_files) = 2
  /\ Len(remote_files[batch_files[1]]) = 2
  /\ image_files = Descending(3)


\* The file without the line appended last.
AllButLast(file) == SubSeq(file, 1, Len(file) - 1)

\* The file at upload_file_location is a complete unit when it is handed to
\* client.upload.
UnitSealed == pc = "upload"

\* C11 as stated: a unit that exceeds MAX_FILE_SIZE is a single artifact
\* that is itself larger than MAX_FILE_SIZE.
C11_OnlySingletonsExceed ==
  (UnitSealed /\ SumSizes(upload_file) > MAX_FILE_SIZE) =>
    Len(upload_file) = 1

\* C11 (amended): a unit exceeds MAX_FILE_SIZE only if it is a single
\* artifact or if it was within MAX_FILE_SIZE before its last artifact
\* was appended.
C11_ExceedsOnlyByLastArtifact ==
  UnitSealed =>
    \/ SumSizes(upload_file) <= MAX_FILE_SIZE
    \/ Len(upload_file) = 1
    \/ SumSizes(AllButLast(upload_file)) <= MAX_FILE_SIZE

C11_Witness ==
  /\ UnitSealed
  /\ Len(upload_file) = 3
  /\ SumSizes(upload_file) > MAX_FILE_SIZE
  /\ \A k \in 1..3 : upload_file[k].size <= MAX_FILE_SIZE

\* C12 as stated: the size of a unit before its last line was appended is
\* at most MAX_FILE_SIZE, and the unit exceeds MAX_FILE_SIZE by less than
\* the size of its last line.
C12_ExceedsByLessThanLast ==
  upload_file # <<>> =>
    /\ SumSizes(AllButLast(upload_file)) <= MAX_FILE_SIZE
    /\ SumSizes(upload_file) - MAX_FILE_SIZE <
         upload_file[Len(upload_file)].size

\* C12 (amended): the size of a unit before its last line was appended is
\* at most MAX_FILE_SIZE, so the unit exceeds MAX_FILE_SIZE by at most the
\* size of its last line, and no line follows once the size has passed
\* MAX_FILE_SIZE.
C12_ExceedsByAtMostLast ==
  upload_file # <<>> =>
    /\ SumSizes(AllButLast(upload_file)) <= MAX_FILE_SIZE
    /\ SumSizes(upload_file) - MAX_FILE_SIZE <=
         upload_file[Len(upload_file)].size
    /\ \A k \in 1..(Len(upload_file) - 1) :
         SumSizes(SubSeq(upload_file, 1, k)) <= MAX_FILE_SIZE

C12_Witness ==
  /\ UnitSealed
  /\ img_idx < Len(image_files)
  /\ Len(upload_file) = 2
  /\ SumSizes(AllButLast(upload_file)) = MAX_FILE_SIZE
  /\ SumSizes(upload_file) = 2 * MAX_FILE_SIZE + 1

Oversized(line) == line.size > MAX_FILE_SIZE

\* C13 as stated: an artifact larger than MAX_FILE_SIZE is alone in its
\* unit.
C13_OversizedIsSingleton ==
  \A k \in 1..Len(upload_file) :
    Oversized(upload_file[k]) => Len(upload_file) = 1

\* C13 (amended): an artifact larger than MAX_FILE_SIZE is the last line of
\* its unit, and it is alone in its unit when it is the unit's first line;
\* artifacts appended before it while the unit was within MAX_FILE_SIZE
\* share the unit with it.
C13_OversizedIsLast ==
  /\ \A k \in 1..(Len(upload_file) - 1) : ~Oversized(upload_file[k])
  /\ (upload_file # <<>> /\ Oversized(upload_file[1])) =>
       Len(upload_file) = 1

C13_Witness ==
  /\ UnitSealed
  /\ Len(upload_file) = 2
  /\ ~Oversized(upload_file[1])
  /\ Oversized(upload_file[2])


\* C14: with a concurrency limit of 0 or less no task is created and the
\* main coroutine never waits in gather: the run fails as a configuration
\* error.
C14_NonPositiveLimitRejected ==
  concurrency <= 0 =>
    /\ start_batch_tasks = <<>>
    /\ pc # "gather_batch"

\* ------------------------------------------------ aggregation on its own
\* The aggregation step (parallex.py:95-108) applied to any page groups the
\* wait phase may deliver, page_numbers repeated or not.
MaxGroups == 2
MaxGroupPages == 2
MaxPageNumber == 2

SeqsUpTo(S, n) == UNION {[1..k -> S] : k \in 1..n}

\* The page_number lists of n jobs: list i holds the page_numbers job i's
\* output carries, in output order.
PageNumberLists(n) == [1..n -> SeqsUpTo(1..MaxPageNumber, MaxGroupPages)]

\* The page groups of the jobs: group i holds the outputs of job i.
PageGroups(numbers) ==
  [i \in 1..Len(numbers) |->
     [k \in 1..Len(numbers[i]) |->
        [page_number |-> numbers[i][k], batch |-> i]]]

\* The state of _execute when gather(*pages_tasks) has returned groups: one
\* file and one job per group, every task done.
InitAggregate ==
  /\ \E n \in 1..MaxGroups :
       \E numbers \in PageNumberLists(n) : page_groups = PageGroups(numbers)
  /\ concurrency \in 1..MaxConcurrency
  /\ pc = "hook"
  /\ image_files = PageNumbers(Flatten(page_groups))
  /\ img_idx = Len(image_files)
  /\ upload_file = <<>>
  /\ batch_files = [i \in 1..Len(page_groups) |-> i]
  /\ remote_files = [i \in 1..Len(page_groups) |-> PageNumbers(page_groups[i])]
  /\ remote_jobs = [i \in 1..Len(page_groups) |-> i]
  /\ created_files =
       [i \in 1..Len(page_groups) |-> FileHandle(i)] \o
       [i \in 1..Len(page_groups) |-> JobHandle(i)]
  /\ start_batch_semaphore = concurrency
  /\ start_batch_tasks = [i \in 1..Len(page_groups) |-> "done"]
  /\ start_results = [i \in 1..Len(page_groups) |-> <<i>>]
  /\ batch_jobs = [i \in 1..Len(page_groups) |-> i]
  /\ process_semaphore = concurrency
  /\ pages_tasks = [i \in 1..Len(page_groups) |-> "done"]
  /\ pages_results = [i \in 1..Len(page_groups) |-> <<page_groups[i]>>]
  /\ hook_called = FALSE
  /\ error = "none"
  /\ ret = Pending
  /\ tracked_at_exit = <<>>
  /\ delete_calls = <<>>
  /\ outcome = Pending

NextAggregate ==
  \/ ReturnWithoutHook
  \/ HookReturns
  \/ HookRaises
  \/ DeleteFileReturns
  \/ DeleteFileRaises
  \/ ParallexReturns

SpecAggregate == InitAggregate /\ [][NextAggregate]_vars

HasDuplicatePageNumbers(pages) ==
  \E k, m \in 1..Len(pages) :
    k # m /\ pages[k].page_number = pages[m].page_number

\* C15: when two collected page outputs have the same page_number, the
\* aggregation ends in an error: no document is returned.
C15_DuplicatesFailLoudly ==
  HasDuplicatePageNumbers(Flatten(page_groups)) =>
    /\ ret.kind # "document"
    /\ outcome.kind # "document"

\* C16: wait tasks exist only when every submit task has completed
\* successfully; when a submit task has failed there is no wait task, at
\* any later time of the run.
C16_BarrierBetweenPhases ==
  /\ pages_tasks # <<>> =>
       \A i \in DOMAIN start_batch_tasks : start_batch_tasks[i] = "done"
  /\ (\E i \in DOMAIN start_batch_tasks : start_batch_tasks[i] = "failed") =>
       /\ pages_tasks = <<>>
       /\ batch_jobs = <<>>

C16_Witness ==
  /\ pc = "done"
  /\ \E i, j \in DOMAIN start_batch_tasks :
       /\ start_batch_tasks[i] = "failed"
       /\ start_batch_tasks[j] = "done"
  /\ pages_tasks = <<>>

\* C17: no file id is ever submitted twice, and on a successful run there
\* is exactly one job per upload unit: as many jobs as units, each file id
\* the input of exactly one job, each job awaited by exactly one wait task.
C17_OneJobPerUnit ==
  /\ \A f \in Range(batch_files) : CountIn(remote_jobs, f) <= 1
  /\ outcome.kind = "document" =>
       /\ Len(remote_jobs) = Len(batch_files)
       /\ \A f \in Range(batch_files) : CountIn(remote_jobs, f) = 1
       /\ Len(pages_tasks) = Len(remote_jobs)
       /\ \A j \in DOMAIN remote_jobs : CountIn(batch_jobs, j) = 1

C17_Witness ==
  /\ outcome.kind = "document"
  /\ Len(batch_files) = 3
  /\ concurrency = 1


\* An upload is in flight only while the main coroutine awaits it; the
\* units reach the remote side in unit order, and no submit task exists and
\* no job is created before the last upload has returned.
UploadsPrecedeSubmissions ==
  /\ \A i \in 1..Len(batch_files) : batch_files[i] = i
  /\ Len(remote_files) = Len(batch_files)
  /\ \E n \in 0..Len(image_files) : UploadedPages = SubSeq(image_files, 1, n)
  /\ pc \in {"pack", "upload"} =>
       (start_batch_tasks = <<>> /\ remote_jobs = <<>>)
  /\ start_batch_tasks # <<>> => UploadedPages = image_files

\* After a failed upload no job is ever submitted and the tracker holds
\* the files of the units uploaded before.
NoSubmissionAfterFailedUpload ==
  error = "upload" =>
    /\ start_batch_tasks = <<>>
    /\ remote_jobs = <<>>
    /\ created_files = [i \in 1..Len(batch_files) |-> FileHandle(i)]

\* C18: uploads are sequential, in unit order, and all precede the first
\* submission; after a failed upload no job is ever submitted, and when
\* parallex() has ended every file uploaded before the failure has
\* received a delete_file call.
C18_UploadsFirstAndCleanedUp ==
  /\ UploadsPrecedeSubmissions
  /\ NoSubmissionAfterFailedUpload
  /\ (error = "upload" /\ pc = "done") =>
       \A i \in 1..Len(batch_files) :
         CountIn(delete_calls, FileHandle(batch_files[i])) >= 1

\* --------------------------------------------------------------- liveness
MaxLivePages == 2

\* The steps of the main coroutine, parallex() and the _execute and
\* upload_images_for_processing it awaits: at most one of them is enabled
\* at a time.
MainSteps ==
  \/ AppendImage \/ BeginUpload \/ UploadReturns \/ UploadRaises
  \/ StartBatchTasks \/ GatherBatchJobs \/ GatherBatchRaises
  \/ GatherPages \/ GatherPagesRaises
  \/ ReturnWithoutHook \/ HookReturns \/ HookRaises
  \/ DeleteFileReturns \/ DeleteFileRaises \/ ParallexReturns

\* Task i entering its semaphore: the i-th submit task or, once every
\* submit task is done, the i-th wait task.
TaskAcquires(i) ==
  \/ i \in DOMAIN start_batch_tasks /\ CreateBatchAcquire(i)
  \/ WaitAcquire(i)

\* The call task i is awaiting inside its semaphore ends.
TaskCallEnds(i) ==
  \/ /\ i \in DOMAIN start_batch_tasks
     /\ (CreateBatchReturns(i) \/ CreateBatchRaises(i))
  \/ WaitReturns(i) \/ WaitRaises(i)
  \/ ProcessOutputReturns(i) \/ ProcessOutputRaises(i)

\* The event loop runs every coroutine that is ready, every remote call
\* eventually returns or raises and every job eventually reaches a terminal
\* status.  Weak fairness is enough for the semaphore too: a task acquires
\* once, so a waiter is passed over at most once by each other task.
Fairness ==
  /\ WF_vars(MainSteps)
  /\ \A i \in 1..MaxLivePages :
       /\ WF_vars(TaskAcquires(i))
       /\ WF_vars(TaskCallEnds(i))

\* Liveness is checked on the runs over at most MaxLivePages images.
InitFair == Init /\ Len(image_files) <= MaxLivePages

FairSpec == InitFair /\ [][Next]_vars /\ Fairness

\* C19: with a limit K >= 1 and every remote call and job ending,
\* parallex() eventually ends (its finally loop included) and every task it
\* created has by then or later got its slot and ended: no task waits for
\* the semaphore forever.  And there is no deadline: while a task has not
\* ended and none has failed, the main coroutine stays in gather.
C19_EventuallyReturns ==
  /\ (concurrency >= 1) ~> (pc = "done" /\ AllTasksEnded)
  /\ [][(/\ pc \in {"gather_batch", "gather_pages"}
         /\ ~AllTasksEnded
         /\ ~SomeTaskFailed) => pc' = pc]_vars

C19_Witness ==
  /\ pc = "done"
  /\ concurrency = 1
  /\ Len(batch_files) = 2
  /\ Len(pages_tasks) = 2
  /\ AllTasksEnded

====
